---- MODULE Spec2Model ----
(***************************************************************************)
(* A model of the two release-metadata scripts of astral-sh/versions:      *)
(*                                                                         *)
(*   scripts/insert-versions.py        the Ledger Merger                   *)
(*   scripts/convert-cargo-dist-plan.py  the Manifest Normalizer           *)
(*                                                                         *)
(* JSON values are tagged records, so that the isinstance tests of the     *)
(* code are decidable: [str |-> s], [num |-> n], [null |-> TRUE],          *)
(* [arr |-> <<...>>] and [obj |-> f] with f a function from keys to JSON   *)
(* values.  A line of text is [raw |-> s] when it is no JSON text and      *)
(* [json |-> v, compact |-> b] when it is a JSON text of value v, written  *)
(* with (b) or without the compact separators.                             *)
(***************************************************************************)
EXTENDS Integers, Sequences, FiniteSets, TLC

VARIABLES
    \* ---- Ledger Merger (insert-versions.py) ----
    ledger,         \* the lines of <name>.ndjson (<<>>: no file, or an empty one)
    pc,             \* "idle" (never run) | "read" (in the stdin loop) | "exit"
    stdin,          \* the lines this run has consumed from stdin so far
    new_versions,   \* main's list new_versions
    exitcode,       \* exit status of the last finished run (-1 while one runs)
    stderr,         \* the diagnostic the run printed
    before,         \* history: the ledger as the run found it
    last_single,    \* history: <<entry>> when the previous run succeeded with
                    \* that single record, <<>> otherwise
    \* ---- validate_version on its own ----
    v_pc,           \* "idle" | "call" | "done"
    v_entry,        \* the entry handed to validate_version
    v_errors,       \* the list validate_version returned
    \* ---- Manifest Normalizer (convert-cargo-dist-plan.py) ----
    manifest,       \* the parsed stdin document
    n_pc,           \* "start" | "loop" | "fetch" | "exit"
    idx,            \* position in the release's artifact list (1-based)
    attempt,        \* fetch_sha256's loop variable
    artifacts_data, \* extract_version_info's list artifacts_data
    responses,      \* history: the responses to the current fetch, in order
    sleeps,         \* history: the time.sleep delays of the current fetch
    fetched,        \* history: <<artifact name, result>> of every finished fetch
    stdout,         \* the lines printed to standard output
    n_exit,         \* exit status of the Normalizer (-1 while it runs)
    n_stderr        \* the warnings and errors printed

mvars == <<ledger, pc, stdin, new_versions, exitcode, stderr, before, last_single>>
vvars == <<v_pc, v_entry, v_errors>>
nvars == <<manifest, n_pc, idx, attempt, artifacts_data, responses, sleeps,
           fetched, stdout, n_exit, n_stderr>>
vars == <<mvars, vvars, nvars>>

\* ------------------------------------------------------------------ bounds

\* Lines of stdin one Merger run reads before end of input.
MaxLines == 2

\* Artifacts of an entry handed to validate_version on its own.
MaxArtifacts == 2

\* ------------------------------------------------------------------- JSON

JStr(s) == [str |-> s]
JNum(n) == [num |-> n]
JNull == [null |-> TRUE]
JArr(a) == [arr |-> a]
JObj(f) == [obj |-> f]

IsStr(v) == DOMAIN v = {"str"}
IsArr(v) == DOMAIN v = {"arr"}
IsObj(v) == DOMAIN v = {"obj"}

\* dict.get(key): None when the key is absent.
Get(o, key) == IF key \in DOMAIN o.obj THEN o.obj[key] ELSE JNull

\* ------------------------------------------------------------------ lines

BlankLine == [raw |-> ""]
GarbageLine == [raw |-> "{not json"]

\* line.strip() leaves nothing.
IsBlank(line) == line = BlankLine

\* json.loads succeeds on the line.
Parsable(line) == "json" \in DOMAIN line

\* json.loads(line): the value, whatever the whitespace of the text.
Loads(line) == line.json

\* json.dumps(v): the text of the value with the default separators, as a
\* ledger written by another tool holds it.
DumpsSpaced(v) == [json |-> v, compact |-> FALSE]

\* json.dumps(v, separators=(",", ":")): the compact text of the value.
Dumps(v) == [json |-> v, compact |-> TRUE]

\* --------------------------------------------------------- string ordering

\* The strings the model sorts by, in Python's (code point) order.
SortedStrings ==
    <<"aarch64-apple-darwin", "debug", "default", "x86_64-pc-windows-msvc",
      "x86_64-unknown-linux-gnu">>

Rank(s) == CHOOSE i \in 1..Len(SortedStrings) : SortedStrings[i] = s

\* a < b on Python strings.
StrLess(a, b) == Rank(a.str) < Rank(b.str)

\* -------------------------------------------------------- validate_version

REQUIRED_ARTIFACT_KEYS == {"platform", "variant", "url", "archive_format", "sha256"}
VALID_ARCHIVE_FORMATS == {"tar.gz", "tar.zst", "zip"}

\* A faulty variant of Falsy: nothing counts as empty.
FalsyNever(v) == FALSE

\* Python's `not v` for a str or a list: it is empty.
Falsy(v) ==
    \/ IsStr(v) /\ v.str = ""
    \/ IsArr(v) /\ v.arr = <<>>

\* artifact["archive_format"] in VALID_ARCHIVE_FORMATS
InValidFormats(v) == IsStr(v) /\ v.str \in VALID_ARCHIVE_FORMATS

\* The body of the loop over the artifacts (i as enumerate gives it, from 0):
\* at most one error per artifact, the first of the three tests that fails.
ArtifactErrors(i, artifact) ==
    IF ~IsObj(artifact)
    THEN <<[msg |-> "not an object", artifact |-> i]>>
    ELSE LET missing == REQUIRED_ARTIFACT_KEYS \ DOMAIN artifact.obj
         IN  IF missing # {}
             THEN <<[msg |-> "missing keys", artifact |-> i, keys |-> missing]>>
             ELSE IF ~InValidFormats(artifact.obj["archive_format"])
                  THEN <<[msg |-> "invalid archive_format", artifact |-> i,
                          value |-> artifact.obj["archive_format"]]>>
                  ELSE <<>>

RECURSIVE ArtifactsErrors(_, _)
\* The errors of artifacts[k..], in order.
ArtifactsErrors(artifacts, k) ==
    IF k > Len(artifacts)
    THEN <<>>
    ELSE ArtifactErrors(k - 1, artifacts[k]) \o ArtifactsErrors(artifacts, k + 1)

\* validate_version(entry), for an entry that is a JSON object: the list of
\* error messages, empty if the entry is valid.
validate_version(entry) ==
    LET version == Get(entry, "version")
        date == Get(entry, "date")
        artifacts == Get(entry, "artifacts")
        e_version == IF ~IsStr(version) \/ Falsy(version)
                     THEN <<[msg |-> "missing or empty 'version'"]>> ELSE <<>>
        e_date == IF ~IsStr(date) \/ Falsy(date)
                  THEN <<[msg |-> "missing or empty 'date'"]>> ELSE <<>>
    IN  IF ~IsArr(artifacts) \/ Falsy(artifacts)
        THEN e_version \o e_date \o <<[msg |-> "missing or empty 'artifacts'"]>>
        ELSE e_version \o e_date \o ArtifactsErrors(artifacts.arr, 1)

\* ------------------------------------------------------------------- sort

\* (a["platform"], a["variant"]) < (b["platform"], b["variant"]) on tuples.
KeyLess(a, b) ==
    \/ StrLess(a.obj["platform"], b.obj["platform"])
    \/ /\ a.obj["platform"] = b.obj["platform"]
       /\ StrLess(a.obj["variant"], b.obj["variant"])

RECURSIVE Insert(_, _)
\* a put into the sorted s behind every element that is not greater.
Insert(a, s) ==
    IF s = <<>> THEN <<a>>
    ELSE IF KeyLess(a, Head(s)) THEN <<a>> \o s
    ELSE <<Head(s)>> \o Insert(a, Tail(s))

RECURSIVE StableSort(_)
StableSort(s) ==
    IF s = <<>> THEN <<>>
    ELSE Insert(s[Len(s)], StableSort(SubSeq(s, 1, Len(s) - 1)))

\* A faulty variant of SortArtifacts: the artifacts stay as supplied.
SortArtifactsNot(version) == version

\* version["artifacts"].sort(key=lambda a: (a["platform"], a["variant"]))
SortArtifacts(version) ==
    JObj([version.obj EXCEPT !["artifacts"] = JArr(StableSort(@.arr))])

\* ------------------------------------------------------- the Ledger Merger

NoDiagnostic == [msg |-> "none"]

\* The value of the "version" key of each record, in order.
VersionsOf(records) == [i \in 1..Len(records) |-> records[i].obj["version"]]

\* Lines 119-129: the values of the ledger's lines that are not blank and
\* parse; a line that does not parse is skipped.
LoadExisting(file) ==
    LET kept == SelectSeq(file, LAMBDA line : ~IsBlank(line) /\ Parsable(line))
    IN  [i \in 1..Len(kept) |-> Loads(kept[i])]

\* v["version"] raises (KeyError, TypeError) for some loaded value.
DedupRaises(existing) ==
    \E i \in 1..Len(existing) :
        ~IsObj(existing[i]) \/ "version" \notin DOMAIN existing[i].obj

\* A faulty variant of Dedup: every existing entry is kept.
DedupKeepAll(existing, new) == existing

\* A faulty variant of Dedup: no existing entry is kept.
DedupDropAll(existing, new) == <<>>

\* Lines 131-133: the existing entries whose version no incoming entry has.
Dedup(existing, new) ==
    LET incoming_version_strings == {new[i].obj["version"] : i \in 1..Len(new)}
    IN  SelectSeq(existing, LAMBDA v : v.obj["version"] \notin incoming_version_strings)

\* A faulty variant of Prepend: the new versions are appended.
PrependAfter(new, existing) == existing \o new

\* Line 136: versions = new_versions + existing
Prepend(new, existing) == new \o existing

\* Lines 138-141: the file as rewritten, one compact JSON text per version.
WriteLedger(versions) == [i \in 1..Len(versions) |-> Dumps(versions[i])]

\* A run ends: sys.exit(code), or an uncaught exception (code 1), with the
\* ledger file as it was.
Fail(diagnostic) ==
    /\ pc' = "exit"
    /\ exitcode' = 1
    /\ stderr' = diagnostic
    /\ UNCHANGED ledger

\* The single record of a run that succeeded with one record, as supplied.
SingleOf(lines) ==
    LET given == SelectSeq(lines, LAMBDA line : ~IsBlank(line))
    IN  IF Len(given) = 1 THEN <<Loads(given[1])>> ELSE <<>>

\* Lines 60-78: the script is started; with a terminal for stdin it exits.
Invoke(isatty) ==
    /\ pc \in {"idle", "exit"}
    /\ stdin' = <<>>
    /\ new_versions' = <<>>
    /\ before' = ledger
    /\ last_single' = IF exitcode = 0 THEN SingleOf(stdin) ELSE <<>>
    /\ IF isatty
       THEN Fail([msg |-> "Error: expected NDJSON on stdin"])
       ELSE /\ pc' = "read"
            /\ exitcode' = -1
            /\ stderr' = NoDiagnostic
            /\ UNCHANGED ledger
    /\ UNCHANGED <<vvars, nvars>>

\* A faulty variant of ReadLine: a line that fails is skipped and the run goes on.
ReadLineSkipping(line) ==
    /\ pc = "read"
    /\ Len(stdin) < MaxLines
    /\ stdin' = Append(stdin, line)
    /\ new_versions' =
           IF /\ ~IsBlank(line) /\ Parsable(line) /\ IsObj(Loads(line))
              /\ validate_version(Loads(line)) = <<>>
           THEN Append(new_versions, Loads(line))
           ELSE new_versions
    /\ UNCHANGED <<ledger, pc, exitcode, stderr, before, last_single, vvars, nvars>>

\* Lines 82-99: one turn of the loop over stdin, on the next line.
ReadLine(line) ==
    /\ pc = "read"
    /\ Len(stdin) < MaxLines
    /\ stdin' = Append(stdin, line)
    /\ LET lineno == Len(stdin) + 1 IN
       IF IsBlank(line)
       THEN UNCHANGED <<ledger, pc, new_versions, exitcode, stderr>>
       ELSE IF ~Parsable(line)
       THEN /\ Fail([msg |-> "Error parsing line", lineno |-> lineno])
            /\ UNCHANGED new_versions
       ELSE IF ~IsObj(Loads(line))
       THEN \* entry.get raises AttributeError
            /\ Fail([msg |-> "Traceback", exception |-> "AttributeError"])
            /\ UNCHANGED new_versions
       ELSE LET errors == validate_version(Loads(line)) IN
            IF errors # <<>>
            THEN /\ Fail([msg |-> "Validation error on line", lineno |-> lineno,
                          errors |-> errors])
                 /\ UNCHANGED new_versions
            ELSE /\ new_versions' = Append(new_versions, Loads(line))
                 /\ UNCHANGED <<ledger, pc, exitcode, stderr>>
    /\ UNCHANGED <<before, last_single, vvars, nvars>>

\* Lines 101-146: stdin is exhausted; the rest of main.
EndOfInput ==
    /\ pc = "read"
    /\ IF new_versions = <<>>
       THEN /\ Fail([msg |-> "No versions provided on stdin"])
            /\ UNCHANGED new_versions
       ELSE LET sorted == [i \in 1..Len(new_versions) |-> SortArtifacts(new_versions[i])]
                existing == LoadExisting(ledger)
            IN  /\ new_versions' = sorted
                /\ IF DedupRaises(existing)
                   THEN Fail([msg |-> "Traceback", exception |-> "KeyError"])
                   ELSE /\ ledger' = WriteLedger(Prepend(sorted, Dedup(existing, sorted)))
                        /\ pc' = "exit"
                        /\ exitcode' = 0
                        /\ stderr' = [msg |-> "Inserted", count |-> Len(sorted)]
    /\ UNCHANGED <<stdin, before, last_single, vvars, nvars>>

\* ---------------------------------------------------- the Merger's inputs

\* A file name, as the pieces the code's prefix and suffix tests tell apart:
\* "uv-aarch64-apple-darwin.tar.gz" is <<"uv", "-", "aarch64-apple-darwin", ".tar.gz">>.
FileName(app_name, platform, ext) == <<app_name, "-", platform, ext>>

\* https://github.com/{org}/{repo}/releases/download/{version}/{file}
ReleaseUrl(org, repo, version, file) ==
    [host |-> "https://github.com", org |-> org, repo |-> repo,
     version |-> version, file |-> file]

Artifact(platform, variant) ==
    JObj([platform |-> JStr(platform), variant |-> JStr(variant),
          url |-> JStr(ReleaseUrl("astral-sh", "uv", "v1", FileName("uv", platform, ".tar.gz"))),
          archive_format |-> JStr("tar.gz"),
          sha256 |-> JStr("abc123")])

Linux == Artifact("x86_64-unknown-linux-gnu", "default")
Darwin == Artifact("aarch64-apple-darwin", "default")
DarwinDebug == Artifact("aarch64-apple-darwin", "debug")

Record(version, artifacts) ==
    JObj([version |-> JStr(version), date |-> JStr("2024-01-01T00:00:00Z"),
          artifacts |-> JArr(artifacts)])

\* The records supplied on stdin: three versions, two of them with artifacts
\* out of order (in platform, in variant).
ValidRecords ==
    { Record("1.0.0", <<Linux, Darwin>>),
      Record("1.1.0", <<Darwin, DarwinDebug, Linux>>),
      Record("2.0.0", <<Linux>>) }

InvalidRecords ==
    { Record("1.0.0", <<>>),
      Record("", <<Linux>>),
      JObj([version |-> JStr("1.1.0")]) }

StdinLines ==
    {BlankLine, GarbageLine, Dumps(JNum(42))}
    \cup {Dumps(r) : r \in ValidRecords \cup InvalidRecords}

\* The ledgers a first run may find: none, one written by an earlier run, and
\* one edited by hand (a line that is no JSON, a blank line, a record written
\* with other separators, a JSON text that is no record).
InitLedgers ==
    { <<>>,
      <<Dumps(Record("1.1.0", <<Darwin>>)), Dumps(Record("1.0.0", <<Darwin>>))>>,
      <<GarbageLine, DumpsSpaced(Record("1.1.0", <<Darwin, Linux>>)), BlankLine,
        Dumps(Record("1.0.0", <<Darwin>>))>>,
      <<Dumps(Record("2.0.0", <<Darwin>>)), Dumps(JObj([date |-> JStr("2024")]))>> }

MergerIdle ==
    /\ pc = "idle"
    /\ stdin = <<>>
    /\ new_versions = <<>>
    /\ exitcode = -1
    /\ stderr = NoDiagnostic
    /\ before = ledger
    /\ last_single = <<>>

ValidateIdle ==
    /\ v_pc = "idle"
    /\ v_entry = JNull
    /\ v_errors = <<>>

NormalizerIdle ==
    /\ manifest = JNull
    /\ n_pc = "idle"
    /\ idx = 0
    /\ attempt = 0
    /\ artifacts_data = <<>>
    /\ responses = <<>>
    /\ sleeps = <<>>
    /\ fetched = <<>>
    /\ stdout = <<>>
    /\ n_exit = -1
    /\ n_stderr = <<>>

Init ==
    /\ ledger \in InitLedgers
    /\ MergerIdle
    /\ ValidateIdle
    /\ NormalizerIdle

Next ==
    \/ \E isatty \in BOOLEAN : Invoke(isatty)
    \/ \E line \in StdinLines : ReadLine(line)
    \/ EndOfInput

Spec == Init /\ [][Next]_vars

\* ------------------------------------------------- the Merger's properties

\* The lines of stdin that are not blank: the records supplied, in order.
Given(lines) == SelectSeq(lines, LAMBDA line : ~IsBlank(line))

\* A line that is malformed JSON or fails schema validation.
BadLine(line) ==
    /\ ~IsBlank(line)
    /\ \/ ~Parsable(line)
       \/ ~IsObj(Loads(line))
       \/ validate_version(Loads(line)) # <<>>

\* The version records that the lines of a ledger hold.
RecordsIn(file) ==
    SelectSeq(LoadExisting(file),
              LAMBDA v : IsObj(v) /\ {"version", "artifacts"} \subseteq DOMAIN v.obj)

\* How often x occurs in the sequence s.
Count(x, s) == Cardinality({i \in 1..Len(s) : s[i] = x})

\* The same record, up to the order of its artifacts.
SameRecord(a, b) ==
    /\ DOMAIN a.obj = DOMAIN b.obj
    /\ \A k \in DOMAIN a.obj \ {"artifacts"} : a.obj[k] = b.obj[k]
    /\ Len(a.obj["artifacts"].arr) = Len(b.obj["artifacts"].arr)
    /\ \A i \in 1..Len(a.obj["artifacts"].arr) :
           Count(a.obj["artifacts"].arr[i], a.obj["artifacts"].arr)
               = Count(a.obj["artifacts"].arr[i], b.obj["artifacts"].arr)

\* A run has ended with exit status 0.
Succeeded == pc = "exit" /\ exitcode = 0

\* C1: version strings are unique within a ledger: no two records of the
\* ledger file have the same version string.
UniqueVersions ==
    \A i, j \in 1..Len(RecordsIn(ledger)) :
        i # j => RecordsIn(ledger)[i].obj["version"] # RecordsIn(ledger)[j].obj["version"]

\* C2: no partial-success ledger write.  A line that is malformed or fails
\* validation ends the run where it is read (it is the last line consumed),
\* with a non-zero exit, whatever valid records came before; so does an input
\* that yields no record; and while a run reads, and after it has ended with
\* a non-zero exit, the ledger is as the run found it.
NoPartialWrite ==
    /\ \A i \in 1..Len(stdin) :
           BadLine(stdin[i]) => (i = Len(stdin) /\ pc = "exit" /\ exitcode # 0)
    /\ (pc = "exit" /\ Given(stdin) = <<>>) => exitcode # 0
    /\ (pc = "read" \/ (pc = "exit" /\ exitcode # 0)) => ledger = before

\* C2's case: a run failed on a bad line that came after a valid record, with
\* a ledger on disk.
NoPartialWriteWitness ==
    /\ pc = "exit" /\ exitcode = 1
    /\ Len(stdin) = 2 /\ BadLine(stdin[2])
    /\ Len(new_versions) = 1
    /\ ledger # <<>>

\* C3: after a successful run with N incoming records, the first N lines of
\* the ledger are the incoming records in the order supplied on stdin, and
\* every line after them is a record the ledger held before.
IncomingFirst ==
    Succeeded =>
        LET given == Given(stdin)
            N == Len(given)
            existing == LoadExisting(before)
        IN  /\ N >= 1
            /\ Len(ledger) >= N
            /\ \A i \in 1..N :
                   /\ Parsable(ledger[i])
                   /\ SameRecord(Loads(ledger[i]), Loads(given[i]))
            /\ \A j \in (N + 1)..Len(ledger) :
                   /\ Parsable(ledger[j])
                   /\ \E k \in 1..Len(existing) : existing[k] = Loads(ledger[j])

\* C3's case: two records of different versions were merged in front of a
\* record that was retained.
IncomingFirstWitness ==
    /\ Succeeded
    /\ Len(Given(stdin)) = 2
    /\ Loads(Given(stdin)[1]).obj["version"] # Loads(Given(stdin)[2]).obj["version"]
    /\ Len(ledger) > 2

\* C4: a second run with the same single record as the run before it leaves
\* the ledger as the first run left it, with exactly one entry of that version.
Idempotent ==
    (Succeeded /\ last_single # <<>> /\ SingleOf(stdin) = last_single) =>
        /\ ledger = before
        /\ Count(last_single[1].obj["version"], VersionsOf(RecordsIn(ledger))) = 1

\* C4's case: two consecutive successful runs with the same single record,
\* on a ledger that holds other versions too.
IdempotentWitness ==
    /\ Succeeded
    /\ last_single # <<>> /\ SingleOf(stdin) = last_single
    /\ Len(ledger) >= 2

\* The artifacts are in ascending order of (platform, variant).
Ascending(artifacts) ==
    \A i, j \in 1..Len(artifacts) : i < j => ~KeyLess(artifacts[j], artifacts[i])

\* C5: in every ledger state, every record's artifacts are ordered by
\* (platform, variant) ascending: the incoming records of a merge and the
\* existing records it retains.
ArtifactsSorted ==
    \A i \in 1..Len(RecordsIn(ledger)) :
        Ascending(RecordsIn(ledger)[i].obj["artifacts"].arr)

\* C5's case: a merge wrote a record that was supplied with its artifacts out
\* of order, in front of a retained record of several artifacts.
ArtifactsSortedWitness ==
    /\ Succeeded
    /\ \E i \in 1..Len(Given(stdin)) :
           ~Ascending(Loads(Given(stdin)[i]).obj["artifacts"].arr)
    /\ Len(ledger) > Len(Given(stdin))
    /\ Len(Loads(ledger[Len(ledger)]).obj["artifacts"].arr) >= 2

\* C10: after a successful run, the ledger behind the incoming records is
\* exactly the parsable records of the previous ledger whose version is not
\* an incoming one, each unchanged and in their previous order.
NoLoss ==
    Succeeded =>
        LET N == Len(Given(stdin))
            incoming == {Loads(Given(stdin)[i]).obj["version"] : i \in 1..N}
            rest == SubSeq(ledger, N + 1, Len(ledger))
            parsable == SelectSeq(before, LAMBDA line : Parsable(line))
            kept == SelectSeq(parsable,
                              LAMBDA line : Loads(line).obj["version"] \notin incoming)
        IN  /\ Len(rest) = Len(kept)
            /\ \A i \in 1..Len(rest) :
                   /\ Parsable(rest[i])
                   /\ Loads(rest[i]) = Loads(kept[i])

\* C10's case: a merge on a ledger that held a line that does not parse, a
\* record of an incoming version and a record of another version.
NoLossWitness ==
    /\ Succeeded
    /\ \E i \in 1..Len(before) : ~Parsable(before[i])
    /\ Len(ledger) > Len(Given(stdin))
    /\ Len(ledger) - Len(Given(stdin))
           < Len(SelectSeq(before, LAMBDA line : Parsable(line)))

\* ------------------------------------------- validate_version on its own

\* The sequences over S of length at most n.
SeqsUpTo(S, n) == UNION {[1..k -> S] : k \in 0..n}

\* An artifact of a candidate entry: no object, or an object with any of the
\* required keys and, for archive_format, a valid or an invalid value.
CandidateArtifacts ==
    {JStr("not an object")}
    \cup { JObj([k \in keys |-> IF k = "archive_format" THEN JStr(fmt) ELSE JStr("x")]) :
             keys \in SUBSET REQUIRED_ARTIFACT_KEYS, fmt \in {"tar.gz", "zip", "rar"} }

\* The members of a candidate entry; Absent stands for a key the entry lacks.
Absent == [absent |-> TRUE]
CandidateVersions == {Absent, JNum(1), JStr(""), JStr("1.0.0")}
CandidateDates == {Absent, JStr("2024-01-01T00:00:00Z")}
CandidateArtifactLists ==
    {Absent, JStr("not a list")}
    \cup {JArr(a) : a \in SeqsUpTo(CandidateArtifacts, MaxArtifacts)}

Entry(version, date, artifacts) ==
    LET members == [version |-> version, date |-> date, artifacts |-> artifacts]
    IN  JObj([k \in {key \in DOMAIN members : members[key] # Absent} |-> members[k]])

CandidateEntries ==
    { Entry(v, d, a) : v \in CandidateVersions, d \in CandidateDates,
                       a \in CandidateArtifactLists }

\* Line 91: errors = validate_version(entry)
Validate ==
    /\ v_pc = "call"
    /\ v_errors' = validate_version(v_entry)
    /\ v_pc' = "done"
    /\ UNCHANGED <<v_entry, mvars, nvars>>

InitValidate ==
    /\ v_pc = "call"
    /\ v_entry \in CandidateEntries
    /\ v_errors = <<>>
    /\ ledger = <<>>
    /\ MergerIdle
    /\ NormalizerIdle

NextValidate == Validate

SpecValidate == InitValidate /\ [][NextValidate]_vars

\* C6: validation completeness.  Every artifact object that lacks required
\* keys is reported with exactly the set of keys it lacks, every artifact
\* object whose archive_format is not a valid one is reported with that value,
\* and the record is rejected: all violations are reported together.
ValidationComplete ==
    (v_pc = "done" /\ IsArr(Get(v_entry, "artifacts"))) =>
        LET artifacts == Get(v_entry, "artifacts").arr IN
        \A k \in 1..Len(artifacts) :
            IsObj(artifacts[k]) =>
                LET missing == REQUIRED_ARTIFACT_KEYS \ DOMAIN artifacts[k].obj
                    format == Get(artifacts[k], "archive_format")
                IN  /\ missing # {} =>
                        \E e \in 1..Len(v_errors) :
                            v_errors[e] = [msg |-> "missing keys", artifact |-> k - 1,
                                           keys |-> missing]
                    /\ (format # JNull /\ ~InValidFormats(format)) =>
                        \E e \in 1..Len(v_errors) :
                            v_errors[e] = [msg |-> "invalid archive_format",
                                           artifact |-> k - 1, value |-> format]

\* -------------------------------------------------- the Manifest Normalizer

\* range(1, 4): the attempts of one fetch are 1, 2, 3.
MaxAttempts == 3

RetryableStatus == {502, 503, 504}

\* name.endswith(ext), for an ext that is one piece of a file name.
EndsWith(name, ext) == name # <<>> /\ name[Len(name)] = ext

\* name.startswith(f"{app_name}-")
StartsWithApp(name, app_name) ==
    Len(name) >= 2 /\ name[1] = app_name /\ name[2] = "-"

\* get_archive_format(filename)
get_archive_format(filename) ==
    IF EndsWith(filename, ".tar.gz") THEN "tar.gz"
    ELSE IF EndsWith(filename, ".tar.zst") THEN "tar.zst"
    ELSE IF EndsWith(filename, ".zip") THEN "zip"
    ELSE "unknown"

\* Lines 92-101 and 104-109: the artifact is passed over without a fetch.
Skipped(artifact_name, app_name) ==
    \/ ~StartsWithApp(artifact_name, app_name)
    \/ EndsWith(artifact_name, ".sha256")
    \/ artifact_name = <<"source", ".tar.gz">>
    \/ artifact_name = <<"source", ".tar.gz", ".sha256">>
    \/ artifact_name = <<"sha256", ".sum">>
    \/ EndsWith(artifact_name, ".sh")
    \/ EndsWith(artifact_name, ".ps1")
    \/ ~(EndsWith(artifact_name, ".tar.gz") \/ EndsWith(artifact_name, ".zip"))

\* artifact_name[prefix_len:-7] or [prefix_len:-4]: the name without the
\* "<app_name>-" in front and the extension behind (one piece, in this model).
PlatformOf(artifact_name) == artifact_name[3]

\* The response is a success (response.raise_for_status() does not raise).
IsSuccess(response) == response.status \in 200..299

\* A faulty variant of Retryable: every server error is retried.
RetryableAnyServerError(status, n) == status >= 500 /\ n < MaxAttempts

\* Line 48: e.response.status_code in {502, 503, 504} and attempt < 3
Retryable(status, n) == status \in RetryableStatus /\ n < MaxAttempts

\* What fetch_sha256 returns.
None == [none |-> TRUE]
Some(token) == [value |-> token]

\* extract_github_info(manifest), for a manifest with a release: <<github_org,
\* github_repo, app_name>>.  The body's match stands for what re.search finds
\* in it: <<org, repo>>, or <<>> when the pattern does not occur.
extract_github_info(m) ==
    LET app_name == m.releases[1].app_name IN
    IF "announcement_github_body" \in DOMAIN m /\ m.announcement_github_body.match # <<>>
    THEN <<m.announcement_github_body.match[1], m.announcement_github_body.match[2], app_name>>
    ELSE <<"astral-sh", app_name, app_name>>

\* manifest.get("releases", [])
ReleasesOf(m) == IF "releases" \in DOMAIN m THEN m.releases ELSE <<>>

\* The artifact names the loop of extract_version_info walks: those of the
\* first release, whose app_name is the one extract_github_info returned.
ArtifactNames(m) == m.releases[1].artifacts

\* The Normalizer ends on an uncaught exception or sys.exit(1): nothing is
\* printed to standard output.
NFail(diagnostic) ==
    /\ n_pc' = "exit"
    /\ n_exit' = 1
    /\ n_stderr' = Append(n_stderr, diagnostic)
    /\ UNCHANGED stdout

\* Lines 138-151 and 85-87: main up to the loop over the artifacts.
NStart(isatty, text) ==
    /\ n_pc = "idle"
    /\ idx' = 1
    /\ UNCHANGED <<attempt, artifacts_data, responses, sleeps, fetched>>
    /\ IF isatty
       THEN /\ NFail([msg |-> "Error: expected cargo-dist plan JSON on stdin"])
            /\ UNCHANGED manifest
       ELSE IF ~Parsable(text)
       THEN /\ NFail([msg |-> "Error parsing JSON from stdin"])
            /\ UNCHANGED manifest
       ELSE /\ manifest' = Loads(text)
            /\ n_stderr' =
                   <<[msg |-> "Extracting version information..."]>>
                   \o (IF "announcement_tag" \notin DOMAIN Loads(text)
                       THEN <<[msg |-> "Traceback", exception |-> "KeyError"]>>
                       ELSE IF ReleasesOf(Loads(text)) = <<>>
                       THEN <<[msg |-> "Traceback", exception |-> "ValueError",
                               text |-> "No releases found in manifest"]>>
                       ELSE <<>>)
            /\ IF "announcement_tag" \notin DOMAIN Loads(text)
                  \/ ReleasesOf(Loads(text)) = <<>>
               THEN n_pc' = "exit" /\ n_exit' = 1
               ELSE n_pc' = "loop" /\ UNCHANGED n_exit
            /\ UNCHANGED stdout
    /\ UNCHANGED <<mvars, vvars>>

\* Lines 91-111: the next artifact name of the release; it is passed over, or
\* its checksum fetch begins.
NextArtifact ==
    /\ n_pc = "loop"
    /\ idx <= Len(ArtifactNames(manifest))
    /\ IF Skipped(ArtifactNames(manifest)[idx], extract_github_info(manifest)[3])
       THEN /\ idx' = idx + 1
            /\ UNCHANGED <<n_pc, attempt, responses, sleeps>>
       ELSE /\ n_pc' = "fetch"
            /\ attempt' = 1
            /\ responses' = <<>>
            /\ sleeps' = <<>>
            /\ UNCHANGED idx
    /\ UNCHANGED <<manifest, artifacts_data, fetched, stdout, n_exit, n_stderr>>
    /\ UNCHANGED <<mvars, vvars>>

\* Lines 113-126: fetch_sha256 has returned sha256 for the artifact at idx.
Returned(sha256, response) ==
    LET artifact_name == ArtifactNames(manifest)[idx]
        info == extract_github_info(manifest)
    IN  /\ fetched' = Append(fetched, <<artifact_name, sha256, response>>)
        /\ idx' = idx + 1
        /\ n_pc' = "loop"
        /\ IF sha256 = None
           THEN /\ n_stderr' = Append(n_stderr,
                                      [msg |-> "Warning: Could not fetch SHA256",
                                       artifact |-> artifact_name])
                /\ UNCHANGED artifacts_data
           ELSE /\ artifacts_data' = Append(artifacts_data,
                    JObj([platform |-> JStr(PlatformOf(artifact_name)),
                          variant |-> JStr("default"),
                          url |-> JStr(ReleaseUrl(info[1], info[2],
                                                  manifest.announcement_tag, artifact_name)),
                          archive_format |-> JStr(get_archive_format(artifact_name)),
                          sha256 |-> JStr(sha256.value)]))
                /\ UNCHANGED n_stderr
        /\ UNCHANGED <<attempt, stdout, n_exit>>

\* An exception leaves fetch_sha256 and, uncaught, ends the run.
Raised(exception, response) ==
    /\ fetched' = Append(fetched, <<ArtifactNames(manifest)[idx],
                                    [raised |-> exception], response>>)
    /\ NFail([msg |-> "Traceback", exception |-> exception])
    /\ UNCHANGED <<idx, attempt, artifacts_data>>

\* Lines 39-52: one turn of the loop of fetch_sha256: client.get(url) and
\* what follows from its outcome.  A response is [status, words], the words
\* being response.text.strip().split(); no response is [error |-> ...].
Request(response) ==
    /\ n_pc = "fetch"
    /\ responses' = Append(responses, response)
    /\ IF "error" \in DOMAIN response
       THEN Raised(response.error, response) /\ UNCHANGED sleeps
       ELSE IF response.status = 404
       THEN Returned(None, response) /\ UNCHANGED sleeps
       ELSE IF IsSuccess(response)
       THEN IF response.words = <<>>
            THEN Raised("IndexError", response) /\ UNCHANGED sleeps
            ELSE Returned(Some(response.words[1]), response) /\ UNCHANGED sleeps
       ELSE IF Retryable(response.status, attempt)
       THEN /\ sleeps' = Append(sleeps, 2 ^ attempt)
            /\ IF attempt < MaxAttempts
               THEN /\ attempt' = attempt + 1
                    /\ UNCHANGED <<n_pc, idx, artifacts_data, fetched, stdout,
                                   n_exit, n_stderr>>
               ELSE Returned(None, response)
       ELSE Returned(None, response) /\ UNCHANGED sleeps
    /\ UNCHANGED <<manifest, mvars, vvars>>

\* The date of the record: datetime.now(timezone.utc).isoformat().
Now == JStr("2026-01-01T00:00:00+00:00")

\* Lines 129-135 and 153-157: the loop is over; the record is sorted, built
\* and printed.
NFinish ==
    /\ n_pc = "loop"
    /\ idx > Len(ArtifactNames(manifest))
    /\ artifacts_data' = StableSort(artifacts_data)
    /\ stdout' = Append(stdout,
           Dumps(JObj([version |-> JStr(manifest.announcement_tag),
                       date |-> Now,
                       artifacts |-> JArr(StableSort(artifacts_data))])))
    /\ n_stderr' = Append(n_stderr, [msg |-> "Found version",
                                     count |-> Len(artifacts_data)])
    /\ n_pc' = "exit"
    /\ n_exit' = 0
    /\ UNCHANGED <<manifest, idx, attempt, responses, sleeps, fetched>>
    /\ UNCHANGED <<mvars, vvars>>

\* ------------------------------------------------ the Normalizer's inputs

LinuxTarGz == FileName("uv", "x86_64-unknown-linux-gnu", ".tar.gz")
WindowsZip == FileName("uv", "x86_64-pc-windows-msvc", ".zip")
DarwinTarZst == FileName("uv", "aarch64-apple-darwin", ".tar.zst")

\* The artifact names of a release as cargo-dist plans it: archives, their
\* checksum files, an installer script and the source bundle.
PlannedArtifacts ==
    << <<"source", ".tar.gz">>,
       LinuxTarGz,
       LinuxTarGz \o <<".sha256">>,
       <<"uv", "-", "installer", ".sh">>,
       DarwinTarZst,
       WindowsZip >>

Manifests ==
    { [announcement_tag |-> "1.0.0", releases |-> <<>>],
      [releases |-> <<[app_name |-> "uv", artifacts |-> PlannedArtifacts]>>],
      [announcement_tag |-> "1.0.0",
       releases |-> <<[app_name |-> "uv", artifacts |-> PlannedArtifacts]>>],
      [announcement_tag |-> "1.0.0",
       announcement_github_body |-> [match |-> <<>>],
       releases |-> <<[app_name |-> "uv", artifacts |-> <<WindowsZip>>],
                      [app_name |-> "uvx", artifacts |-> <<LinuxTarGz>>]>>],
      [announcement_tag |-> "1.0.0",
       announcement_github_body |-> [match |-> <<"acme", "tool">>],
       releases |-> <<[app_name |-> "uv", artifacts |-> <<LinuxTarGz>>]>>] }

NormalizerInputs == {GarbageLine} \cup {Dumps(m) : m \in Manifests}

\* What client.get may come to: a success with a checksum file's text or with
\* an empty body, an HTTP error status, or no response at all.
Responses ==
    { [status |-> 200, words |-> <<"deadbeef", "uv-x86_64-unknown-linux-gnu.tar.gz">>],
      [status |-> 200, words |-> <<>>],
      [status |-> 404, words |-> <<"Not", "Found">>],
      [status |-> 500, words |-> <<>>],
      [status |-> 502, words |-> <<>>],
      [status |-> 503, words |-> <<>>],
      [status |-> 504, words |-> <<>>],
      [error |-> "ConnectTimeout"] }

InitNormalizer ==
    /\ ledger = <<>>
    /\ MergerIdle
    /\ ValidateIdle
    /\ NormalizerIdle

NextNormalizer ==
    \/ \E isatty \in BOOLEAN, text \in NormalizerInputs : NStart(isatty, text)
    \/ NextArtifact
    \/ \E response \in Responses : Request(response)
    \/ NFinish

SpecNormalizer == InitNormalizer /\ [][NextNormalizer]_vars

\* --------------------------------------------- the Normalizer's properties

\* The response is an HTTP response (client.get did not raise).
IsResponse(r) == "status" \in DOMAIN r

\* The fetch that `responses` records has ended.
FetchEnded == n_pc \in {"loop", "exit"} /\ responses # <<>>

\* C7: bounded retry.  One checksum fetch makes at most 3 requests; every
\* request but the last was answered 502, 503 or 504 and was attempt 1 or 2;
\* each of them is followed by one sleep, of 2 seconds and then twice as long;
\* a 404 or another HTTP error status ends the fetch at once with None, and a
\* success ends it at once, what it returns being the first word of the body.
BoundedRetry ==
    LET retried == IF n_pc = "fetch" THEN Len(responses) ELSE Len(responses) - 1 IN
    /\ Len(responses) <= 3
    /\ n_pc = "fetch" => Len(responses) < 3 /\ attempt = Len(responses) + 1
    /\ \A i \in 1..retried :
           /\ IsResponse(responses[i])
           /\ responses[i].status \in {502, 503, 504}
           /\ i \in {1, 2}
    /\ Len(sleeps) = (IF responses = <<>> THEN 0 ELSE retried)
    /\ \A i \in 1..Len(sleeps) : sleeps[i] = (IF i = 1 THEN 2 ELSE 2 * sleeps[i - 1])
    /\ FetchEnded =>
           LET last == responses[Len(responses)]
               result == fetched[Len(fetched)][2]
           IN  /\ fetched[Len(fetched)][3] = last
               /\ (IsResponse(last) /\ ~IsSuccess(last)) => result = None
               /\ (IsResponse(last) /\ IsSuccess(last) /\ last.words # <<>>)
                      => result = Some(last.words[1])
               /\ "value" \in DOMAIN result
                      => (IsResponse(last) /\ IsSuccess(last)
                          /\ result.value = last.words[1])

\* C7's case: a fetch was answered 503 and 502 and then, on the third
\* attempt, with a checksum file, after another fetch that 504 ended on its
\* third attempt.
BoundedRetryWitness ==
    /\ FetchEnded
    /\ Len(responses) = 3
    /\ sleeps = <<2, 4>>
    /\ responses[1].status = 503 /\ responses[2].status = 502
    /\ fetched[Len(fetched)][2] = Some("deadbeef")
    /\ Len(fetched) = 2
    /\ fetched[1][2] = None /\ fetched[1][3].status = 504

\* C8: a checksum failure never aborts the run.  When every request of the
\* run was answered (by a 404, another HTTP error, 502-504 until the retries
\* were used up, or a success whose body holds no token), the run goes through
\* every artifact, ends with exit status 0 and emits exactly the artifacts
\* whose fetch returned a checksum.
ChecksumFailureNeverAborts ==
    (n_pc = "exit" /\ fetched # <<>>
     /\ \A i \in 1..Len(responses) : IsResponse(responses[i])) =>
        /\ n_exit = 0
        /\ Len(stdout) = 1
        /\ \A i \in 1..Len(fetched) :
               ("value" \in DOMAIN fetched[i][2])
                   <=> (\E j \in 1..Len(artifacts_data) :
                            /\ artifacts_data[j].obj["platform"] = JStr(PlatformOf(fetched[i][1]))
                            /\ artifacts_data[j].obj["sha256"] = JStr(fetched[i][2].value))

\* ------------------------------------- the Normalizer piped into the Merger

\* The ledgers of InitLedgers whose lines that parse are all version records.
PipelineLedgers == {file \in InitLedgers : ~DedupRaises(LoadExisting(file))}

\* The Merger is started on the Normalizer's standard output (no terminal).
PipeInvoke ==
    /\ n_pc = "exit"
    /\ pc = "idle"
    /\ Invoke(FALSE)

\* The Merger reads the next line the Normalizer printed.
PipeRead ==
    /\ Len(stdin) < Len(stdout)
    /\ ReadLine(stdout[Len(stdin) + 1])

\* The Merger has read all the Normalizer printed.
PipeEnd ==
    /\ Len(stdin) = Len(stdout)
    /\ EndOfInput

InitPipeline ==
    /\ ledger \in PipelineLedgers
    /\ MergerIdle
    /\ ValidateIdle
    /\ NormalizerIdle

NextPipeline ==
    \/ \E isatty \in BOOLEAN, text \in NormalizerInputs : NStart(isatty, text)
    \/ NextArtifact
    \/ \E response \in Responses : Request(response)
    \/ NFinish
    \/ PipeInvoke
    \/ PipeRead
    \/ PipeEnd

SpecPipeline == InitPipeline /\ [][NextPipeline]_vars

\* Every checksum fetch of the run ended with a checksum or on a 404.
OnlyNotFound ==
    /\ fetched # <<>>
    /\ \A i \in 1..Len(fetched) :
           /\ IsResponse(fetched[i][3])
           /\ \/ fetched[i][3].status = 404
              \/ "value" \in DOMAIN fetched[i][2]

\* C9: when checksum fetches return 404, the Normalizer itself ends with exit
\* status 0 and prints its record, whose artifacts are those that got a
\* checksum.  With at least one artifact left the Merger accepts the record
\* and it heads the ledger; with all artifacts dropped, and only then, the run
\* fails: the Merger rejects the record for its empty artifacts, exits
\* non-zero and leaves the ledger as it was.
EmptyRecordRejected ==
    (n_pc = "exit" /\ pc = "exit" /\ OnlyNotFound) =>
        LET dropped == {i \in 1..Len(fetched) : fetched[i][2] = None} IN
        /\ n_exit = 0
        /\ Len(stdout) = 1
        /\ Len(Loads(stdout[1]).obj["artifacts"].arr) = Len(fetched) - Cardinality(dropped)
        /\ Cardinality(dropped) < Len(fetched) =>
               /\ exitcode = 0
               /\ ledger # <<>> /\ ledger[1] = stdout[1]
        /\ Cardinality(dropped) = Len(fetched) =>
               /\ exitcode # 0
               /\ ledger = before
               /\ \A i \in 1..Len(ledger) : ledger[i] # stdout[1]
               /\ stderr = [msg |-> "Validation error on line", lineno |-> 1,
                            errors |-> <<[msg |-> "missing or empty 'artifacts'"]>>]

\* C9's case: both checksum fetches of a release ended on a 404, the record
\* with no artifacts was printed and piped into the Merger of a ledger that
\* holds records.
EmptyRecordRejectedWitness ==
    /\ n_pc = "exit" /\ pc = "exit" /\ OnlyNotFound
    /\ Len(fetched) = 2
    /\ \A i \in 1..Len(fetched) : fetched[i][2] = None
    /\ Loads(stdout[1]).obj["artifacts"] = JArr(<<>>)
    /\ before # <<>>

====
